---- MODULE Spec2Model ----
(***************************************************************************)
(* The OCI inventory crawl of santoshguru-11/costcal.                      *)
(*                                                                         *)
(* Four command-line scripts run the same crawl with different scope       *)
(* enumeration, collector registries and error handling:                   *)
(*   "inventory"      src/server/services/oci-inventory.py                 *)
(*   "simple"         src/server/services/oci-inventory-simple.py          *)
(*   "comprehensive"  src/server/services/oci-inventory-comprehensive.py   *)
(*   "discovery"      src/server/services/oci_discovery.py                 *)
(* One run of a script is one behaviour: main parses the credentials,      *)
(* builds the clients, enumerates the compartments, runs every collector   *)
(* of the registry in every compartment, returns and exits.                *)
(* The provider's answers (the root lookup, the subtree listing, the       *)
(* number of items a listing returns, a call that raises) are inputs.      *)
(***************************************************************************)
EXTENDS Integers, Sequences, FiniteSets, TLC

\* ------------------------------------------------------------------ bounds
\* Longest subtree listing the provider returns.
MaxSub == 1
\* Most items one listing call returns, and most items of one kind in the
\* tenancy.
MaxItems == 2
\* Most resource summaries one search returns.
MaxHits == 3
\* Most calls that raise or never answer during one crawl (listing calls,
\* record normalisations and optional client constructions together).
MaxFail == 1

\* The calls that may raise in a crawl over the compartments comps whose
\* listings return the item counts it: MaxFail of them, but a single one once
\* the crawl has more than two compartments or a listing of two or more
\* items (the dimensions are explored together only up to there).
FailBudget(it, comps) ==
    IF Len(comps) > 2 \/ \E c \in DOMAIN it : it[c] > 1
    THEN (IF MaxFail > 0 THEN 1 ELSE 0)
    ELSE MaxFail

\* ------------------------------------------------------------ the scripts
Scripts == {"inventory", "simple", "comprehensive", "discovery"}

\* Compartment ids: the root tenancy and one sub-compartment.
Root == "R"
CompartmentIds == {"R", "A"}

\* A collector: the category key it appends to, the _discover_* function
\* (try block) it belongs to, whether its listing has a try/except of its
\* own inside that function, and the client it calls ("core" clients are
\* always constructed).
Col(cat, group, inner, client) ==
    [cat |-> cat, group |-> group, inner |-> inner, client |-> client]

InventoryRegistry ==
    << Col("compute_instances", "core", TRUE, "core"),
       Col("block_volumes", "core", TRUE, "core"),
       Col("object_storage_buckets", "core", TRUE, "core"),
       Col("autonomous_databases", "core", TRUE, "core"),
       Col("load_balancers", "core", TRUE, "core"),
       Col("vcns", "core", TRUE, "core"),
       Col("subnets", "core", TRUE, "core"),
       Col("security_lists", "core", TRUE, "core"),
       Col("route_tables", "network", TRUE, "core"),
       Col("internet_gateways", "network", TRUE, "core"),
       Col("nat_gateways", "network", TRUE, "core"),
       Col("service_gateways", "network", TRUE, "core"),
       Col("network_security_groups", "network", TRUE, "core"),
       Col("images", "compute", TRUE, "core"),
       Col("volume_groups", "storage", TRUE, "core"),
       Col("boot_volumes", "storage", TRUE, "core"),
       Col("backups", "storage", TRUE, "core"),
       Col("db_systems", "database", TRUE, "core") >>

SimpleRegistry ==
    << Col("compute_instances", "loop", TRUE, "core"),
       Col("block_volumes", "loop", TRUE, "core"),
       Col("object_storage_buckets", "loop", TRUE, "core"),
       Col("autonomous_databases", "loop", TRUE, "core"),
       Col("load_balancers", "loop", TRUE, "core"),
       Col("vcns", "loop", TRUE, "core"),
       Col("subnets", "loop", TRUE, "core"),
       Col("security_lists", "loop", TRUE, "core") >>

ComprehensiveRegistry ==
    << Col("compute_instances", "compute", FALSE, "core"),
       Col("block_volumes", "storage", FALSE, "core"),
       Col("object_storage_buckets", "storage", TRUE, "core"),
       Col("vcns", "network", FALSE, "core"),
       Col("subnets", "network", TRUE, "core"),
       Col("security_lists", "network", TRUE, "core"),
       Col("route_tables", "network", TRUE, "core"),
       Col("internet_gateways", "network", TRUE, "core"),
       Col("nat_gateways", "network", TRUE, "core"),
       Col("service_gateways", "network", TRUE, "core"),
       Col("load_balancers", "network", TRUE, "core"),
       Col("autonomous_databases", "database", TRUE, "core"),
       Col("clusters", "container", TRUE, "container_engine"),
       Col("node_pools", "container", TRUE, "container_engine"),
       Col("applications", "serverless", TRUE, "functions"),
       Col("functions", "serverless", TRUE, "functions"),
       Col("stream_pools", "analytics", TRUE, "streaming"),
       Col("streams", "analytics", TRUE, "streaming"),
       Col("data_science_projects", "ai", TRUE, "data_science"),
       Col("dns_zones", "security", TRUE, "dns"),
       Col("alarms", "monitoring", TRUE, "monitoring"),
       Col("usage_reports", "management", TRUE, "usage_api"),
       Col("budgets", "cost", TRUE, "budget"),
       Col("subscriptions", "tenant", TRUE, "usage_api") >>

DiscoveryRegistry ==
    << Col("compute_instances", "loop", TRUE, "core"),
       Col("block_volumes", "loop", TRUE, "core"),
       Col("object_storage_buckets", "loop", TRUE, "core"),
       Col("autonomous_databases", "loop", TRUE, "core"),
       Col("load_balancers", "loop", TRUE, "core"),
       Col("vcns", "loop", TRUE, "core") >>

\* The collectors of a script in the order their listing blocks stand in
\* the source.
RegistrationOrder(s) ==
    CASE s = "inventory" -> InventoryRegistry
      [] s = "simple" -> SimpleRegistry
      [] s = "comprehensive" -> ComprehensiveRegistry
      [] OTHER -> DiscoveryRegistry

\* A variant that runs the collectors last to first.
ReversedRegistry(s) ==
    [k \in 1..Len(RegistrationOrder(s)) |->
        RegistrationOrder(s)[Len(RegistrationOrder(s)) + 1 - k]]

\* The collectors the body of the compartment loop runs, in the order it
\* runs them: straight-line code, so the order of the source.
Registry(s) == RegistrationOrder(s)

\* The place of each category's collector in the source order.
RegistrationIndex ==
    [s \in {"inventory", "simple", "comprehensive", "discovery"} |->
       [cat \in {RegistrationOrder(s)[k].cat :
                    k \in 1..Len(RegistrationOrder(s))} |->
          CHOOSE k \in 1..Len(RegistrationOrder(s)) :
             RegistrationOrder(s)[k].cat = cat]]

\* The categories some collector of the script appends to.
CollectorCats(s) == {Registry(s)[k].cat : k \in 1..Len(Registry(s))}

\* The keys of the resources mapping each script creates before the crawl.
InventoryKeys ==
    { "compute_instances", "block_volumes", "object_storage_buckets",
      "autonomous_databases", "load_balancers", "vcns", "subnets",
      "security_lists", "route_tables", "internet_gateways", "nat_gateways",
      "service_gateways", "network_security_groups", "public_ips",
      "private_ips", "dhcp_options", "images", "volume_groups",
      "boot_volumes", "backups", "db_systems" }

SimpleKeys ==
    { "compute_instances", "block_volumes", "object_storage_buckets",
      "autonomous_databases", "load_balancers", "vcns", "subnets",
      "security_lists" }

ComprehensiveKeys ==
    { "compute_instances", "block_volumes", "object_storage_buckets",
      "autonomous_databases", "load_balancers", "vcns", "subnets",
      "security_lists", "route_tables", "internet_gateways", "nat_gateways",
      "service_gateways", "network_security_groups", "public_ips",
      "private_ips", "container_instances", "node_pools", "clusters",
      "functions", "applications", "api_gateways", "deployments", "streams",
      "stream_pools", "alarms", "log_groups", "log_sources",
      "analytics_instances", "data_integration_workspaces", "data_catalogs",
      "data_science_projects", "notebook_sessions", "model_deployments",
      "jobs", "pipeline_runs", "dns_zones", "dns_records", "certificates",
      "vaults", "keys", "secrets", "artifacts", "repositories",
      "os_management_instances", "lifecycle_environments",
      "operations_insights_warehouses", "management_agents", "dashboards",
      "optimizer_profiles", "resource_manager_stacks", "work_requests",
      "usage_reports", "budgets", "cost_analysis", "subscriptions",
      "organizations", "links", "recipient_invitations",
      "sender_invitations", "domain_governances", "domains",
      "subscription_mappings", "assigned_subscriptions",
      "subscription_line_items" }

DiscoveryKeys ==
    { "compute_instances", "block_volumes", "object_storage_buckets",
      "autonomous_databases", "load_balancers", "vcns" }

InitialKeys(s) ==
    CASE s = "inventory" -> InventoryKeys
      [] s = "simple" -> SimpleKeys
      [] s = "comprehensive" -> ComprehensiveKeys
      [] OTHER -> DiscoveryKeys

\* resources = { "compute_instances": [], ... }
EmptyResources(s) == [k \in InitialKeys(s) |-> << >>]

\* The optional service clients _initialize_clients constructs inside
\* try/except: pass, and that a _discover_* function tests with "in clients".
OptionalClients ==
    { "container_engine", "functions", "streaming", "data_science", "dns",
      "monitoring", "usage_api", "budget" }

ClientsOf(s) ==
    IF s = "comprehensive" THEN OptionalClients ELSE {}


\* No call of the resource-search function has been made.
NoSearch == [ran |-> FALSE]

\* ------------------------------------------------------------------ state
VARIABLES
    script,        \* which of the four scripts runs
    pc,            \* main's position: "parse", "build", "enum", "clients",
                   \* "crawl", "returned", "raised", "exit"
    exitCode,      \* the process exit status, -1 while it runs
    result,        \* what discover returned: "none", "resources", "error"
    rootResult,    \* get_compartment(tenancy): "none" (not called), "ok", "fail"
    listResult,    \* list_compartments(tenancy): "none", "ok", "fail"
    listData,      \* the ids list_compartments returned
    items,         \* how many items a listing returns in each compartment
    compartments,  \* the sequence the crawl loop iterates
    ci,            \* index of the compartment being scanned
    clients,       \* the optional clients that were constructed
    resources,     \* category key -> sequence of records
    calls,         \* the listing calls made so far: <<position, category>>
    failed,        \* the calls that raised: <<position, category>>
    normFailed,    \* those of them whose listing returned and whose record
                   \* loop raised
    nfail,         \* how many calls raised so far
    credentials,   \* "none", "accepted", or "rejected" (unparsable, or the
                   \* config, signer or identity client could not be built)
    plans,         \* per loop position, which listings raised and how
    second,         \* what a second crawl over the same provider state gives
    stdout,         \* the JSON documents written to standard output, in order
    keyFile,        \* the temporary private-key file of this run
    search         \* the call of the resource-search discover_resources: its inputs and what it returned

vars ==
    << script, pc, exitCode, result, rootResult, listResult, listData, items,
       compartments, ci, clients, resources, calls, failed, normFailed,
       nfail, credentials,
       plans,
       second,
       stdout,
       keyFile,
       search >>

\* The subtree listings the provider may return: any ids, the root and
\* repeated ids included.
RECURSIVE SeqsUpTo(_, _)
SeqsUpTo(S, n) ==
    IF n = 0 THEN {<< >>}
    ELSE SeqsUpTo(S, n - 1) \cup
         {Append(q, x) : q \in {r \in SeqsUpTo(S, n - 1) : Len(r) = n - 1}, x \in S}

Listings == SeqsUpTo(CompartmentIds, MaxSub)

\* The state before main runs.
Fresh ==
    /\ pc = "parse"
    /\ exitCode = -1
    /\ result = "none"
    /\ rootResult = "none"
    /\ listResult = "none"
    /\ listData = << >>
    /\ items = [c \in CompartmentIds |-> 0]
    /\ compartments = << >>
    /\ ci = 1
    /\ clients = {}
    /\ resources = << >>
    /\ calls = << >>
    /\ failed = {}
    /\ normFailed = {}
    /\ nfail = 0
    /\ credentials = "none"
    /\ plans = << >>
    /\ second = [done |-> FALSE, res |-> << >>, failed |-> {}]
    /\ stdout = << >>
    /\ keyFile = "none"
    /\ search = NoSearch

Init ==
    /\ script \in Scripts
    /\ Fresh

\* ------------------------------------------------------------------- main
\* main's except branch of oci-inventory.py prints an error document
\* (success: false) to standard output; the other scripts print the error
\* to stderr only.
PrintsErrorJson(s) == s = "inventory"

\* main: json.loads of the credentials argument (or file). A parse error is
\* caught by main's except, which exits with status 1.
ParseCredentials ==
    /\ pc = "parse"
    /\ \E ok \in BOOLEAN :
         IF ok THEN /\ pc' = "build"
                    /\ exitCode' = exitCode
                    /\ credentials' = credentials
         ELSE /\ pc' = "exit"
              /\ exitCode' = 1
              /\ credentials' = "rejected"
    /\ stdout' = IF pc' = "exit" /\ PrintsErrorJson(script)
                 THEN << "error" >> ELSE stdout
    /\ UNCHANGED << script, result, rootResult, listResult, listData, items,
                    compartments, ci, clients, resources, calls, failed, normFailed,
                    nfail,
                    plans,
                    second,
                    keyFile,
                    search >>

\* Scripts that create the resources mapping before they enumerate.
KeysBeforeEnum(s) == s \in {"inventory", "discovery"}

\* Scripts that write the private key to a temporary .pem file
\* (NamedTemporaryFile(delete=False)); oci_discovery.py passes key_content.
UsesKeyFile(s) == s # "discovery"

\* Where building the config, the signer and the clients can raise:
\*   "field"      a credential field other than privateKey is missing,
\*   "privateKey" credentials["privateKey"] is missing: key_file.write(...)
\*                raises inside the with block, after the file was created,
\*   "signer"     the signer or a client constructor raises.
BuildErrors == {"field", "privateKey", "signer"}

\* The key file after a build that raised with error why:
\*   "none"   no file was created (main of oci-inventory.py reads the other
\*            fields before it creates the file),
\*   "orphan" the file exists and no cleanup knows it: main of
\*            oci-inventory.py is not yet inside try ... finally, and
\*            _build_config has not yet assigned self.temp_key_file,
\*   "held"   the file exists and the finally block or __del__ will unlink
\*            it.
KeyFileAfterError(s, why) ==
    CASE ~UsesKeyFile(s) -> "none"
      [] why = "privateKey" -> "orphan"
      [] why = "field" -> IF s = "inventory" THEN "none" ELSE "held"
      [] OTHER -> "held"

\* The config, the signer and the service clients. An error here (a missing
\* credential field, a rejected key) is raised to main by three scripts;
\* discover_oci_resources catches it and returns {"error": ...}.
Build ==
    /\ pc = "build"
    /\ \/ /\ pc' = "enum"
          /\ result' = result
          /\ credentials' = "accepted"
          /\ resources' = IF KeysBeforeEnum(script)
                          THEN EmptyResources(script) ELSE resources
          /\ keyFile' = IF UsesKeyFile(script) THEN "held" ELSE "none"
       \/ \E why \in BuildErrors :
             /\ pc' = IF script = "discovery" THEN "returned" ELSE "raised"
             /\ result' = IF script = "discovery" THEN "error" ELSE result
             /\ credentials' = "rejected"
             /\ resources' = resources
             /\ keyFile' = KeyFileAfterError(script, why)
    /\ UNCHANGED << script, exitCode, rootResult, listResult, listData, items,
                    compartments, ci, clients, calls, failed, normFailed, nfail,
                    plans,
                    second,
                    stdout,
                    search >>


\* ------------------------------------------------------ scope enumeration
\* Whether the script calls get_compartment(tenancy) at all, and whether it
\* calls it before list_compartments.
CallsGetRoot(s) == s # "discovery"
RootFirst(s) == s \in {"simple", "comprehensive"}

\* Which of the two identity calls are reached, given the outcome of the
\* one called first: the second call is not made once the first raised.
RootCalled(s, listOK) == CallsGetRoot(s) /\ (RootFirst(s) \/ listOK)
ListCalled(s, rootOK) == ~RootFirst(s) \/ rootOK

\* The enumeration raises to the caller: only oci-inventory.py, whose two
\* identity calls sit directly in discover_resources' try ... except: raise.
EnumRaises(s, rootOK, listOK) ==
    s = "inventory" /\ (~listOK \/ ~rootOK)

\* discover_oci_resources returns the (empty) resources when its
\* list_compartments call raises.
EnumReturnsEarly(s, listOK) ==
    s = "discovery" /\ ~listOK

\* The sequence the crawl loop iterates.
\*   simple, comprehensive: _get_compartments appends the root, then every
\*     listed compartment; on any exception it returns [].
\*   inventory: the listed compartments, then compartments.append(root).
\*   discovery: the listed compartments only.
GetCompartments(s, rootOK, listOK, data) ==
    CASE RootFirst(s) ->
           IF rootOK /\ listOK THEN << Root >> \o data ELSE << >>
      [] s = "inventory" -> data \o << Root >>
      [] OTHER -> data

\* The crawl loop reaches compartment c: only then does a listing in c
\* return anything to the run.
Visits(s, rootOK, listOK, data, c) ==
    /\ ~EnumRaises(s, rootOK, listOK)
    /\ ~EnumReturnsEarly(s, listOK)
    /\ \E i \in 1..Len(GetCompartments(s, rootOK, listOK, data)) :
          GetCompartments(s, rootOK, listOK, data)[i] = c

\* A variant in which the service is built again after the enumeration.
AfterEnumerationRestart(s) == "build"

\* What discover does once it has the compartments: the comprehensive
\* script constructs its clients, the others enter the compartment loop.
AfterEnumeration(s) == IF s = "comprehensive" THEN "clients" ELSE "crawl"

Enumerate ==
    /\ pc = "enum"
    /\ \E rootOK \in BOOLEAN, listOK \in BOOLEAN, data \in Listings,
          it \in {f \in [CompartmentIds -> 0..MaxItems] :
                    f[Root] + f["A"] <= MaxItems} :
         /\ rootResult' = IF RootCalled(script, listOK)
                          THEN (IF rootOK THEN "ok" ELSE "fail") ELSE "none"
         /\ listResult' = IF ListCalled(script, rootOK)
                          THEN (IF listOK THEN "ok" ELSE "fail") ELSE "none"
         /\ listData' = IF ListCalled(script, rootOK) /\ listOK
                        THEN data ELSE << >>
         /\ items' = [c \in CompartmentIds |->
                        IF Visits(script, rootOK, listOK, data, c) THEN it[c] ELSE 0]
         /\ IF EnumRaises(script, rootOK, listOK)
            THEN /\ pc' = "raised"
                 /\ UNCHANGED << result, compartments, resources >>
            ELSE IF EnumReturnsEarly(script, listOK)
            THEN /\ pc' = "returned"
                 /\ result' = "resources"
                 /\ UNCHANGED << compartments, resources >>
            ELSE /\ pc' = AfterEnumeration(script)
                 /\ compartments' = GetCompartments(script, rootOK, listOK, data)
                 /\ resources' = IF script = "simple"
                                 THEN EmptyResources(script) ELSE resources
                 /\ result' = result
    /\ UNCHANGED << script, exitCode, ci, clients, calls, failed, normFailed, nfail,
                    credentials,
                    plans,
                    second,
                    stdout,
                    keyFile,
                    search >>

\* _initialize_clients: the seven core clients are constructed outside any
\* try (an error is raised to main); each optional client that fails to
\* construct is left out of the clients mapping.
InitializeClients ==
    /\ pc = "clients"
    /\ \E coreOK \in BOOLEAN, missing \in SUBSET ClientsOf(script) :
         /\ Cardinality(missing) <= FailBudget(items, compartments) - nfail
         /\ IF coreOK
            THEN /\ pc' = "crawl"
                 /\ clients' = ClientsOf(script) \ missing
                 /\ nfail' = nfail + Cardinality(missing)
                 /\ resources' = EmptyResources(script)
            ELSE /\ pc' = "raised"
                 /\ UNCHANGED << clients, nfail, resources >>
    /\ UNCHANGED << script, exitCode, result, rootResult, listResult, listData,
                    items, compartments, ci, calls, failed, normFailed, credentials,
                    plans,
                    second,
                    stdout,
                    keyFile,
                    search >>


\* ------------------------------------------------------------- the crawl
\* The categories whose records embed SDK objects' __dict__, built by
\* iterating a list attribute of the item ([rule.__dict__ for rule in
\* security_list.egress_security_rules], ...): the iteration raises when the
\* provider left the attribute out (None), and json.dumps can serialise
\* such a record only if no nested SDK object is left in it.
NestedCats(s) ==
    IF s = "comprehensive"
    THEN {"security_lists", "route_tables", "service_gateways", "load_balancers"}
    ELSE {}

\* How one collector invocation can end: << "ok", n >> lists n items and
\* appends them all; << "list", 0 >>: the listing call raises;
\* << "norm", a >>: the listing returns its n items and building the record
\* of item a + 1 raises after a records were appended (the loop appends
\* record by record). Every other record is built from attribute reads
\* and guarded isoformat() calls only.
FailureOutcomes(s, col, n) ==
    {<< "list", 0 >>}
      \cup (IF col.cat \in NestedCats(s)
            THEN {<< "norm", a >> : a \in 0..(n - 1)} ELSE {})

AllFailureOutcomes(n) ==
    {<< "list", 0 >>} \cup {<< "norm", a >> : a \in 0..(n - 1)}

Raised(o) == o[1] # "ok"

\* The listing call itself returned (its items were there to be recorded).
ListingReturned(o) == o[1] # "list"

\* The records the invocation appended before it finished or raised.
Appended(o) == o[2]

\* The fields the spec makes common to every record; a display name is
\* stored as "display_name" or "name", a state as "state" or
\* "lifecycle_state".
CommonFields == {"id", "display_name", "state", "time_created"}

\* The common fields that the record literal of category cat in script s
\* does not have.
MissingFields(s, cat) ==
    CASE s = "discovery" ->
           IF cat \in {"object_storage_buckets", "autonomous_databases"}
           THEN {"state", "time_created"} ELSE {"time_created"}
      [] s = "inventory" /\ cat = "object_storage_buckets" -> {"id", "state"}
      [] s \in {"simple", "comprehensive"} /\ cat = "object_storage_buckets" ->
           {"state"}
      [] s = "comprehensive" /\ cat = "dns_zones" -> {"state"}
      [] OTHER -> {}

\* The common fields a record of category cat carries.
RecordFields(s, cat) == CommonFields \ MissingFields(s, cat)

\* ----------------------------------------------------------- timestamps
\* The time_created attribute of item j of a listing in compartment c as
\* the provider returns it: a datetime object, or None when the provider
\* left it out. Both occur in every compartment that lists two items.
NoTime == [kind |-> "None", at |-> 0]
SourceTime(c, j) ==
    IF (j + (IF c = Root THEN 0 ELSE 1)) % 2 = 0
    THEN [kind |-> "datetime", at |-> j] ELSE NoTime

\* datetime.isoformat(): the ISO-8601 text of the instant.
Isoformat(d) == [kind |-> "iso8601", at |-> d.at]

\* JSON null (Python None stored in the record).
Null == [kind |-> "null", at |-> 0]

\* A variant that stores the attribute as the provider gave it.
RawTime(v) == v

\* "x.time_created.isoformat() if x.time_created else None"
NormaliseTime(v) == IF v.kind # "None" THEN Isoformat(v) ELSE Null

\* The record of item j of the listing of category cat in compartment c:
\* "compartment": compartment_name and, where the record literal has it,
\* "time_created".
Record(s, cat, c, j) ==
    IF "time_created" \in RecordFields(s, cat)
    THEN [comp |-> c, item |-> j,
          time_created |-> NormaliseTime(SourceTime(c, j))]
    ELSE [comp |-> c, item |-> j]

\* The records of the first a items of one listing.
Records(s, cat, c, a) == [j \in 1..a |-> Record(s, cat, c, j)]

\* A variant that files the records of a listing under a key of its own
\* instead of appending under the category key.
AppendUnderNewKey(res, cat, recs) ==
    IF recs = << >> THEN res
    ELSE [k \in DOMAIN res \cup {"uncategorised"} |->
            IF k = "uncategorised" THEN recs ELSE res[k]]

\* A variant that assigns the records of a listing to the category key,
\* dropping what the key held.
AssignRecords(res, cat, recs) == [res EXCEPT ![cat] = recs]

\* resources[cat].append(record), once per record.
AppendRecords(res, cat, recs) == [res EXCEPT ![cat] = @ \o recs]

\* The first collector after the _discover_* function (try block) of
\* collector k.
NextGroup(s, k) ==
    LET later == {j \in (k + 1)..Len(Registry(s)) :
                    Registry(s)[j].group # Registry(s)[k].group}
    IN IF later = {} THEN Len(Registry(s)) + 1
       ELSE CHOOSE j \in later : \A i \in later : j <= i

\* Whether the script wraps the body of each _discover_* function in a
\* try/except of its own (oci-inventory.py and the comprehensive script do;
\* the other two list inline in the compartment loop).
GroupTry(s) == s \in {"inventory", "comprehensive"}

\* A variant without the function-level try/except: only a collector's own
\* try/except catches.
CaughtInnerOnly(s, col) == col.inner

\* An exception raised by collector col is caught inside the compartment
\* loop: by the collector's own try/except or by that of its function.
Caught(s, col) == col.inner \/ GroupTry(s)

\* Where control goes after collector k: past its own try/except when it
\* has one (or when it did not raise), otherwise to the except of the
\* enclosing function, which skips the rest of that function.
AfterCollector(s, k, raised) ==
    IF raised /\ ~Registry(s)[k].inner THEN NextGroup(s, k) ELSE k + 1

\* The client a collector needs was constructed ("if 'x' in clients:").
HasClient(cl, col) == col.client = "core" \/ col.client \in cl

\* The listing call of an invocation is made and no response ever arrives:
\* the call is made without a timeout argument and the clients are
\* constructed without one, so the script stays inside the call.
NeverAnswers(o) == o[1] = "pending"

\* One collector invocation at loop position pos in compartment c with
\* outcome o, on the crawl's mutable state acc = [res, calls, failed,
\* normFailed, escaped]; escaped: the exception left the compartment loop.
Collect(s, col, c, pos, o, acc) ==
    [ res |-> AppendRecords(acc.res, col.cat, Records(s, col.cat, c, Appended(o))),
      calls |-> Append(acc.calls, << pos, col.cat >>),
      failed |-> IF Raised(o) THEN acc.failed \cup {<< pos, col.cat >>}
                 ELSE acc.failed,
      normFailed |-> IF Raised(o) /\ ListingReturned(o)
                     THEN acc.normFailed \cup {<< pos, col.cat >>}
                     ELSE acc.normFailed,
      escaped |-> Raised(o) /\ ~Caught(s, col) ]

\* The body of the compartment loop from collector k on: every _discover_*
\* call in order. plan maps the registry indices whose invocation raises to
\* how it raises; every other invocation lists n items successfully. The
\* next collector (j) and the state this one leaves (a) are values before
\* the next collector runs.
RECURSIVE RunCollectors(_, _, _, _, _, _, _, _)
RunCollectors(s, cl, c, pos, n, plan, k, acc) ==
    IF k > Len(Registry(s)) \/ acc.escaped THEN acc
    ELSE LET col == Registry(s)[k]
             o == IF k \in DOMAIN plan THEN plan[k] ELSE << "ok", n >>
         IN IF HasClient(cl, col) /\ NeverAnswers(o)
            THEN [acc EXCEPT !.calls = Append(@, << pos, col.cat >>)]
            ELSE CHOOSE r \in
                   {RunCollectors(s, cl, c, pos, n, plan, j, a) :
                      j \in {IF HasClient(cl, col)
                             THEN AfterCollector(s, k, Raised(o))
                             ELSE NextGroup(s, k)},
                      a \in {IF HasClient(cl, col)
                             THEN Collect(s, col, c, pos, o, acc)
                             ELSE acc}} : TRUE

\* The subsets of S with at most b elements.
RECURSIVE SubsetsUpTo(_, _)
SubsetsUpTo(S, b) ==
    IF b <= 0 THEN {{}}
    ELSE LET prev == SubsetsUpTo(S, b - 1)
         IN prev \cup {T \cup {x} : T \in prev, x \in S}

\* The registry indices whose collector the loop body can reach at all.
Invocable(s, cl) == {k \in 1..Len(Registry(s)) : HasClient(cl, Registry(s)[k])}

\* An exception that leaves the compartment loop reaches the except of
\* discover: three scripts re-raise it to main, discover_oci_resources
\* returns {"error": str(e)}.
OuterExcept(s) == IF s = "discovery" THEN "returned" ELSE "raised"

\* One iteration of "for compartment in compartments:".
ScanCompartment ==
    /\ pc = "crawl"
    /\ ci <= Len(compartments)
    /\ \E F \in SubsetsUpTo(Invocable(script, clients),
                            FailBudget(items, compartments) - nfail) :
       \E plan \in [F -> AllFailureOutcomes(items[compartments[ci]])] :
         \E acc \in {RunCollectors(script, clients, compartments[ci], ci,
                                   items[compartments[ci]], plan, 1,
                                   [res |-> resources, calls |-> calls,
                                    failed |-> failed,
                                    normFailed |-> normFailed,
                                    escaped |-> FALSE])} :
            /\ \A k \in F : plan[k] \in FailureOutcomes(script, Registry(script)[k],
                                                        items[compartments[ci]])
            \* every planned failure belongs to an invocation that was made
            /\ Cardinality(acc.failed) = Cardinality(failed) + Cardinality(DOMAIN plan)
            /\ normFailed' = acc.normFailed
            /\ plans' = Append(plans, plan)
            /\ resources' = acc.res
            /\ calls' = acc.calls
            /\ failed' = acc.failed
            /\ nfail' = nfail + Cardinality(DOMAIN plan)
            /\ IF acc.escaped
               THEN /\ pc' = OuterExcept(script)
                    /\ result' = IF script = "discovery" THEN "error" ELSE result
                    /\ ci' = ci
               ELSE /\ pc' = pc
                    /\ result' = result
                    /\ ci' = ci + 1
    /\ UNCHANGED << script, exitCode, rootResult, listResult, listData, items,
                    compartments, clients, credentials,
                    second,
                    stdout,
                    keyFile,
                    search >>

\* The loop is exhausted: return resources.
CrawlReturn ==
    /\ pc = "crawl"
    /\ ci > Len(compartments)
    /\ pc' = "returned"
    /\ result' = "resources"
    /\ UNCHANGED << script, exitCode, rootResult, listResult, listData, items,
                    compartments, ci, clients, resources, calls, failed, normFailed,
                    nfail, credentials,
                    plans,
                    second,
                    stdout,
                    keyFile,
                    search >>

\* Whether json.dumps(result) may raise TypeError on what discover returned.
MayNotSerialise(s, res, r) ==
    r = "resources" /\ \E cat \in NestedCats(s) : res[cat] # << >>

\* main after discover: print(json.dumps(result)) and fall off the end
\* (status 0), or the except branch: sys.exit(1).
ExitStatus(p, dumped) == IF p = "returned" /\ dumped THEN 0 ELSE 1

\* oci-inventory.py removes the temporary key file with os.unlink in a
\* finally block, where an error is raised to main's except; the simple and
\* comprehensive scripts remove it in __del__ under try/except: pass, and
\* oci_discovery.py writes no key file.
CleanupMayRaise(s) == s = "inventory"

\* The JSON document print(json.dumps(result)) writes for what discover
\* returned: the report, or discover_oci_resources' {"error": ...}.
Document(r) == IF r = "resources" THEN "report" ELSE "error"

\* What main writes to standard output from discover's return or raise on:
\* the result document when it was serialised, and the error document of
\* the except branch when that branch runs.
Output(s, p, r, dumped, cleaned) ==
    (IF p = "returned" /\ dumped THEN << Document(r) >> ELSE << >>)
      \o (IF PrintsErrorJson(s) /\ ExitStatus(p, dumped /\ cleaned) # 0
          THEN << "error" >> ELSE << >>)

MainExit ==
    /\ pc \in {"returned", "raised"}
    /\ pc' = "exit"
    /\ \E dumped \in BOOLEAN, cleaned \in BOOLEAN :
         /\ ~dumped => pc = "returned" /\ MayNotSerialise(script, resources, result)
         /\ ~cleaned => CleanupMayRaise(script)
         /\ exitCode' = ExitStatus(pc, dumped /\ cleaned)
         /\ stdout' = stdout \o Output(script, pc, result, dumped, cleaned)
         /\ keyFile' = IF keyFile = "held" /\ cleaned THEN "deleted" ELSE keyFile
    /\ UNCHANGED << script, result, rootResult, listResult, listData, items,
                    compartments, ci, clients, resources, calls, failed,
                    normFailed, nfail, credentials, plans, second,
                    search >>

Next ==
    \/ ParseCredentials
    \/ Build
    \/ Enumerate
    \/ InitializeClients
    \/ ScanCompartment
    \/ CrawlReturn
    \/ MainExit

Spec == Init /\ [][Next]_vars


\* ------------------------------------------------------- a second crawl
\* A variant in which the loop resumes where an earlier crawl left its
\* index.
ResumePosition(left) == left

\* "for compartment in compartments:" starts at the first compartment of
\* the list just enumerated, wherever an earlier crawl stopped.
FirstPosition(left) == 1

\* The compartment loop from position p on, over the compartments comps,
\* with the provider answering as pl says.
RECURSIVE CrawlFrom(_, _, _, _, _, _, _)
CrawlFrom(s, cl, comps, it, pl, p, acc) ==
    IF p > Len(comps) \/ p > Len(pl) \/ acc.escaped THEN acc
    ELSE CrawlFrom(s, cl, comps, it, pl, p + 1,
                   RunCollectors(s, cl, comps[p], p, it[comps[p]], pl[p], 1, acc))

\* discover run again against the provider state the first run saw: the
\* same answers of the identity calls, the same clients, the same listings
\* and the same failing calls. It builds its own resources mapping.
Discover(s, rootOK, listOK, data, cl, it, pl, left) ==
    CrawlFrom(s, cl, GetCompartments(s, rootOK, listOK, data), it, pl,
              FirstPosition(left),
              [res |-> EmptyResources(s), calls |-> << >>, failed |-> {},
               normFailed |-> {}, escaped |-> FALSE])

\* The script is run a second time after a run that wrote its report and
\* exited with status 0.
Recrawl ==
    /\ pc = "exit"
    /\ result = "resources"
    /\ exitCode = 0
    /\ ~second.done
    /\ \E acc \in {Discover(script, rootResult = "ok", listResult = "ok",
                            listData, clients, items, plans, ci)} :
          second' = [done |-> TRUE, res |-> acc.res, failed |-> acc.failed]
    /\ UNCHANGED << script, pc, exitCode, result, rootResult, listResult,
                    listData, items, compartments, ci, clients, resources,
                    calls, failed, normFailed, nfail, credentials, plans,
                    stdout,
                    keyFile,
                    search >>

NextTwice ==
    \/ Next
    \/ Recrawl

SpecTwice == Init /\ [][NextTwice]_vars

\* ------------------------------------------------ the --operation option
\* The scripts whose main takes --operation, and the values the claim
\* names (the choices of the simple and the comprehensive script;
\* oci-inventory.py accepts any text).
HasOperation(s) == s \in {"inventory", "simple", "comprehensive"}
Operations == {"all", "compute", "storage", "database", "network"}

\* A variant of main that, for an operation other than all, keeps only the
\* categories the operation names.
DiscoverTargeted(s, op, rootOK, listOK, data, cl, it, pl, left) ==
    LET acc == Discover(s, rootOK, listOK, data, cl, it, pl, left)
        cats == CASE op = "compute" -> {"compute_instances"}
                  [] op = "storage" -> {"block_volumes", "object_storage_buckets"}
                  [] op = "database" -> {"autonomous_databases"}
                  [] OTHER -> {"vcns", "subnets", "security_lists",
                               "load_balancers"}
    IN IF op = "all" THEN acc
       ELSE [acc EXCEPT
               !.res = [cat \in DOMAIN acc.res |->
                          IF cat \in cats THEN acc.res[cat] ELSE << >>],
               !.calls = SelectSeq(acc.calls, LAMBDA c : c[2] \in cats)]

\* main: "if args.operation == 'all': result = service.discover_resources()
\* else: result = service.discover_resources()" in the comprehensive
\* script; the other two parse the option and never read it.
DiscoverFor(s, op, rootOK, listOK, data, cl, it, pl, left) ==
    IF op = "all"
    THEN Discover(s, rootOK, listOK, data, cl, it, pl, left)
    ELSE Discover(s, rootOK, listOK, data, cl, it, pl, left)

\* The script is run again with --operation op, with the same credentials
\* and against the same provider state, after a run with the default
\* operation (all) that wrote its report and exited with status 0, in
\* which at most one call went wrong.
RunWithOperation ==
    /\ pc = "exit"
    /\ HasOperation(script)
    /\ result = "resources"
    /\ exitCode = 0
    /\ nfail <= 1
    /\ ~second.done
    /\ \E op \in Operations \ {"all"} :
       \E acc \in {DiscoverFor(script, op, rootResult = "ok", listResult = "ok",
                                listData, clients, items, plans, ci)} :
          second' = [done |-> TRUE, res |-> acc.res, failed |-> acc.failed,
                     calls |-> acc.calls, op |-> op]
    /\ UNCHANGED << script, pc, exitCode, result, rootResult, listResult,
                    listData, items, compartments, ci, clients, resources,
                    calls, failed, normFailed, nfail, credentials, plans,
                    stdout, keyFile, search >>

NextOperation ==
    \/ Next
    \/ RunWithOperation

SpecOperation == Init /\ [][NextOperation]_vars

\* ------------------------------------------------ a call without answer
\* One iteration of the compartment loop in which the listing call of
\* collector h never answers: the collectors before it run as usual, the
\* call is made, and control never comes back.
CallNeverAnswers ==
    /\ pc = "crawl"
    /\ ci <= Len(compartments)
    /\ nfail < FailBudget(items, compartments)
    /\ \E h \in Invocable(script, clients) :
         LET acc == RunCollectors(script, clients, compartments[ci], ci,
                                  items[compartments[ci]],
                                  [k \in {h} |-> << "pending", 0 >>], 1,
                                  [res |-> resources, calls |-> calls,
                                   failed |-> failed,
                                   normFailed |-> normFailed,
                                   escaped |-> FALSE])
         IN /\ resources' = acc.res
            /\ calls' = acc.calls
            /\ pc' = "blocked"
    /\ UNCHANGED << script, exitCode, result, rootResult, listResult, listData,
                    items, compartments, ci, clients, failed, normFailed, nfail,
                    credentials, plans, second, stdout,
                    keyFile,
                    search >>

NextLive ==
    \/ Next
    \/ CallNeverAnswers

\* The script is one sequential process: a step that can be taken is taken.
SpecLive == Init /\ [][NextLive]_vars /\ WF_vars(NextLive)

\* ------------------------------------------- the resource-search script
\* The resource summaries a search may return: time_created a datetime or
\* None, defined_tags a mapping or None, and a summary an attribute of
\* which cannot be read (reading it raises).
HitKinds ==
    {[time_created |-> t, defined_tags |-> g, readable |-> TRUE] :
        t \in {NoTime, [kind |-> "datetime", at |-> 1]},
        g \in {"None", "tags"}}
      \cup {[time_created |-> NoTime, defined_tags |-> "None",
              readable |-> FALSE]}

\* What the provider does with the one search: the client constructor
\* raises, the search call raises, the response has no data, data has no
\* items, or data.items is a list of summaries.
SearchAnswers ==
    {[kind |-> k, hits |-> << >>] :
        k \in {"client_error", "search_error", "no_data", "no_items"}}
      \cup {[kind |-> "items", hits |-> h] : h \in SeqsUpTo(HitKinds, MaxHits)}

\* "item.defined_tags or {}"
OrEmpty(g) == IF g = "None" THEN "{}" ELSE g

\* The mapping built for one summary.
Resource(h) ==
    [time_created |-> NormaliseTime(h.time_created),
     defined_tags |-> OrEmpty(h.defined_tags)]

\* The body of the try block: the list built so far and whether an
\* exception left the block. The loop appends summary by summary and stops
\* at the first one that raises.
RECURSIVE ProcessHits(_, _, _)
ProcessHits(hits, i, acc) ==
    IF i > Len(hits) THEN [raised |-> FALSE, resources |-> acc]
    ELSE IF ~hits[i].readable THEN [raised |-> TRUE, resources |-> acc]
    ELSE ProcessHits(hits, i + 1, Append(acc, Resource(hits[i])))

SearchTry(a) ==
    CASE a.kind \in {"client_error", "search_error"} ->
           [raised |-> TRUE, resources |-> << >>]
      [] a.kind \in {"no_data", "no_items"} ->
           [raised |-> FALSE, resources |-> << >>]
      [] OTHER -> ProcessHits(a.hits, 1, << >>)

\* A variant of the except branch that returns what the loop had built.
OnExceptionKeepBuilt(built) ==
    [success |-> FALSE, error |-> "message", resources |-> built,
     total_count |-> 0]

\* except Exception as e: return {"success": False, "error": str(e),
\* "resources": [], "total_count": 0}
OnException(built) ==
    [success |-> FALSE, error |-> "message", resources |-> << >>,
     total_count |-> 0]

\* discover_resources of oci_discovery.py (the resource-search script).
SearchResult(a) ==
    IF SearchTry(a).raised
    THEN OnException(SearchTry(a).resources)
    ELSE [success |-> TRUE, resources |-> SearchTry(a).resources,
          total_count |-> Len(SearchTry(a).resources)]

\* main: result = discover_resources(...).
SearchCall ==
    /\ script = "search"
    /\ pc = "parse"
    /\ \E a \in SearchAnswers :
          search' = [ran |-> TRUE, answer |-> a, raised |-> SearchTry(a).raised,
                     out |-> SearchResult(a)]
    /\ pc' = "returned"
    /\ UNCHANGED << script, exitCode, result, rootResult, listResult, listData,
                    items, compartments, ci, clients, resources, calls, failed,
                    normFailed, nfail, credentials, plans, second, stdout,
                    keyFile >>

\* main: print(json.dumps(result, indent=2)) and fall off the end.
SearchPrint ==
    /\ script = "search"
    /\ pc = "returned"
    /\ pc' = "exit"
    /\ exitCode' = 0
    /\ stdout' = Append(stdout, "report")
    /\ UNCHANGED << script, result, rootResult, listResult, listData, items,
                    compartments, ci, clients, resources, calls, failed,
                    normFailed, nfail, credentials, plans, second, keyFile,
                    search >>

InitSearch ==
    /\ script = "search"
    /\ Fresh

NextSearch ==
    \/ SearchCall
    \/ SearchPrint

SpecSearch == InitSearch /\ [][NextSearch]_vars

\* ----------------------------------------------------------- the report
\* The elements of a sequence, and how often x occurs in it.
Range(q) == {q[i] : i \in 1..Len(q)}
Occurrences(q, x) == Cardinality({i \in 1..Len(q) : q[i] = x})

\* How many records of the list recs carry compartment c.
CountIn(recs, c) == Cardinality({i \in 1..Len(recs) : recs[i].comp = c})

\* discover returned the resources mapping to main (the report).
Reported == pc = "returned" /\ result = "resources"

\* The failure entries of the report. The report is the resources mapping
\* itself (oci-inventory.py wraps it with success, timestamp and
\* total_resources): it has them only under a key of its own.
ReportFailures ==
    IF "failures" \in DOMAIN resources THEN resources["failures"] ELSE << >>

\* The positions of the loop at which category cat was listed in
\* compartment c without raising.
ListedOK(cat, c) ==
    {p \in 1..Len(compartments) :
        compartments[p] = c /\ << p, cat >> \in Range(calls) \ failed}


\* ----------------------------------------------------------------- claims
\* C1: fault isolation. In a returned crawl in which exactly one collector
\* invocation failed (one category in one compartment), every other
\* (compartment, category) pair was invoked and its records are in
\* resources.
FaultIsolation ==
    (Reported /\ Cardinality(failed) = 1 /\ nfail = 1)
    => \A p \in 1..Len(compartments), cat \in CollectorCats(script) :
          << p, cat >> \notin failed
          => /\ << p, cat >> \in Range(calls)
             /\ CountIn(resources[cat], compartments[p])
                   >= items[compartments[p]]
                        * Cardinality(ListedOK(cat, compartments[p]))

\* C2: the returned report has a failure entry for a (compartment position,
\* category) pair if and only if that collector invocation failed.
FailuresRecorded ==
    Reported
    => \A pair \in Range(calls) :
          pair \in failed <=> pair \in Range(ReportFailures)

RootOnceNoDuplicates ==
    (pc = "crawl" /\ rootResult = "ok" /\ listResult = "ok")
    => /\ Occurrences(compartments, Root) = 1
       /\ \A i, j \in 1..Len(compartments) :
             compartments[i] = compartments[j] => i = j
       /\ Range(listData) \subseteq Range(compartments)

\* C5: when the root lookup succeeds and the subtree listing fails, the
\* enumeration yields the root alone, nothing is raised, and the crawl
\* scans that one compartment.
SubtreeFailureFallsBackToRoot ==
    (rootResult = "ok" /\ listResult = "fail")
    => /\ pc # "raised"
       /\ compartments = << Root >>
       /\ pc \in {"returned", "exit"} => ci = 2

\* C6: when the root compartment cannot be resolved, discover raises and
\* returns no report.
RootFailureIsFatal ==
    (rootResult = "fail" /\ pc \in {"returned", "exit"})
    => result # "resources"

\* The loop ran over the whole enumerated scope and discover returned.
CrawlCompleted == result = "resources" /\ ci > Len(compartments)

\* Scope resolution failed fatally: the root is unreachable or the
\* credentials were rejected.
ScopeFatal == rootResult = "fail" \/ credentials = "rejected"

\* C7: the exit code is 0 exactly when the crawl completed and non-zero
\* exactly when scope resolution failed fatally.
ExitCodeContract ==
    pc = "exit"
    => /\ exitCode = 0 <=> CrawlCompleted
       /\ exitCode # 0 <=> ScopeFatal

\* C8: every category key of the returned resources has a collector that
\* the crawl invokes.
EveryKeyHasCollector ==
    Reported => DOMAIN resources \subseteq CollectorCats(script)

\* C9: from the start of the crawl on, in every state and in the returned
\* report, the keys of resources are the keys it was created with.
KeysFixed ==
    (pc = "crawl" \/ result = "resources")
    => DOMAIN resources = InitialKeys(script)

\* C9 witness: the run ended with records appended and a failed invocation.
KeysAfterAppendsAndFailure ==
    /\ pc = "exit"
    /\ result = "resources"
    /\ failed # {}
    /\ \E cat \in DOMAIN resources : resources[cat] # << >>

\* C10: the number of loop iterations of a returned crawl equals the number
\* of distinct compartment ids the enumeration returned.
ScannedEqualsDistinct ==
    Reported => ci - 1 = Cardinality(Range(compartments))

\* How many items the listing of category cat returned at loop position p:
\* those of its compartment when the call was made and returned.
ItemsReturned(p, cat) ==
    IF << p, cat >> \in Range(calls)
         /\ (<< p, cat >> \notin failed \/ << p, cat >> \in normFailed)
    THEN items[compartments[p]] ELSE 0

\* The items the listings of cat returned in compartment c at the loop
\* positions 1..p.
RECURSIVE SumReturned(_, _, _)
SumReturned(cat, c, p) ==
    IF p = 0 THEN 0
    ELSE SumReturned(cat, c, p - 1)
           + (IF compartments[p] = c THEN ItemsReturned(p, cat) ELSE 0)

\* C11: in the returned report, every category holds, for each compartment,
\* as many records carrying that compartment's name as its listings returned
\* items there (so its length is the sum over the scanned compartments and
\* no record carries another compartment's name).
RecordsMatchListings ==
    Reported
    => \A cat \in DOMAIN resources, c \in CompartmentIds :
          CountIn(resources[cat], c) = SumReturned(cat, c, Len(compartments))

SingleDocumentOnStdout ==
    /\ Len(stdout) <= 1
    /\ \A i \in 1..Len(stdout) : stdout[i] \in {"report", "error"}
    /\ stdout # << >> => pc = "exit"

\* C14: every record in resources carries id, display name, state and
\* creation time.
CommonFieldsPresent ==
    \A cat \in DOMAIN resources :
       resources[cat] # << >> => CommonFields \subseteq RecordFields(script, cat)

\* C15: every time_created stored in a record is the ISO-8601 text of the
\* provider's timestamp when there is one and null when there is none
\* (never the provider's object), and no record loop raises over an
\* absent timestamp: the loops that raise are those of the categories
\* that iterate a list attribute.
TimestampsIsoOrNull ==
    /\ \A cat \in DOMAIN resources : \A i \in 1..Len(resources[cat]) :
          "time_created" \in DOMAIN resources[cat][i]
          => LET rec == resources[cat][i]
                 src == SourceTime(rec.comp, rec.item)
             IN IF src.kind = "None"
                THEN rec.time_created = Null
                ELSE rec.time_created = [kind |-> "iso8601", at |-> src.at]
    /\ \A pair \in normFailed : pair[2] \in NestedCats(script)

\* C15 witness: the returned report holds a record whose timestamp was
\* absent and one whose timestamp was present.
ReportWithBothTimestamps ==
    /\ Reported
    /\ \E cat \in DOMAIN resources :
          \E i, j \in 1..Len(resources[cat]) :
             /\ "time_created" \in DOMAIN resources[cat][i]
             /\ resources[cat][i].time_created = Null
             /\ resources[cat][j].time_created.kind = "iso8601"

\* C16: whatever the listings returned, the report discover returns is
\* serialised: main writes it to standard output.
ReportAlwaysSerialises ==
    (pc = "exit" /\ result = "resources") => "report" \in Range(stdout)

\* The (position, category) pairs whose optional client was not constructed.
Unsupported ==
    {<< p, Registry(script)[k].cat >> :
        p \in 1..Len(compartments),
        k \in {j \in 1..Len(Registry(script)) :
                  ~HasClient(clients, Registry(script)[j])}}

\* C17: when an optional client could not be constructed, the crawl returns,
\* the categories of that client stay empty, and the report has a failure of
\* kind Unsupported for each of them in every compartment.
UnsupportedReported ==
    (Reported /\ clients # ClientsOf(script))
    => /\ \A pair \in Unsupported : resources[pair[2]] = << >>
       /\ \A pair \in Unsupported :
             \E i \in 1..Len(ReportFailures) :
                /\ ReportFailures[i].pair = pair
                /\ ReportFailures[i].errorKind = "Unsupported"

\* C18: every collector invocation that raised has exactly one failure in
\* the returned report, with exactly one of the five error kinds (an
\* authentication-denied listing: one AuthFailure), and the crawl returns.
FailuresClassified ==
    (pc \in {"returned", "exit"} /\ failed # {})
    => /\ result = "resources"
       /\ \A pair \in failed :
             Cardinality({i \in 1..Len(ReportFailures) :
                             /\ ReportFailures[i].pair = pair
                             /\ ReportFailures[i].errorKind \in
                                  {"AuthFailure", "Throttled", "NotFound",
                                   "Unsupported", "Unknown"}}) = 1

\* C19: the crawl always eventually completes, also when a listing call
\* never answers: the process reaches its exit.
CrawlTerminates == <>(pc = "exit")

\* C20: the invocations are independent. Whatever the other invocations of
\* a crawl did before it (ran, raised, returned), every (position,
\* collector) pair of a scanned compartment whose own listing the provider
\* answers is invoked and does not fail.
InvocationsIndependent ==
    (pc = "crawl" \/ Reported)
    => \A p \in 1..Len(plans), k \in Invocable(script, clients) :
          k \notin DOMAIN plans[p]
          => << p, Registry(script)[k].cat >> \in Range(calls) \ failed

\* C21: in a returned crawl every (position, category) pair of the
\* enumerated compartments and the collectors has been invoked exactly
\* once: none skipped after an earlier failure, none invoked twice, none
\* retried.
EachPairInvokedOnce ==
    (Reported /\ clients = ClientsOf(script))
    => \A p \in 1..Len(compartments), cat \in CollectorCats(script) :
          Occurrences(calls, << p, cat >>) = 1

\* C22: the invocations are strictly sequential. The calls made so far are
\* ordered by compartment position and, within one position, by the
\* registration order of the collectors; when the loop is about to start a
\* compartment, every call made belongs to an earlier position.
SequentialOrder ==
    /\ \A i \in 1..(Len(calls) - 1) :
          \/ calls[i][1] < calls[i + 1][1]
          \/ /\ calls[i][1] = calls[i + 1][1]
             /\ RegistrationIndex[script][calls[i][2]]
                   < RegistrationIndex[script][calls[i + 1][2]]
    /\ pc = "crawl" => \A i \in 1..Len(calls) : calls[i][1] < ci

\* C22 witness: a crawl that has made calls in two compartments, one of
\* which raised, and is about to go on.
CallsInTwoCompartments ==
    /\ pc = "crawl"
    /\ failed # {}
    /\ \E i, j \in 1..Len(calls) : calls[i][1] # calls[j][1]

\* The crawl status at each control point: 0 not started (main parses the
\* credentials and builds the service), 1 running (discover enumerates and
\* scans), 2 completed (discover returned or raised to main), 3 the process
\* has exited.
StatusRank(p) ==
    CASE p \in {"parse", "build"} -> 0
      [] p \in {"enum", "clients", "crawl"} -> 1
      [] p \in {"returned", "raised"} -> 2
      [] OTHER -> 3

\* C23: the crawl status never moves backwards; a report exists only once
\* the crawl is completed; and once the report is returned, no record and
\* no failure is added to it.
StatusMonotone ==
    /\ [](result = "resources" => pc \in {"returned", "exit"})
    /\ [][/\ StatusRank(pc') >= StatusRank(pc)
          /\ result = "resources"
               => /\ resources' = resources
                  /\ failed' = failed
                  /\ result' = result]_vars

\* C23 witness: the process has exited with status 0 after a crawl over two
\* compartments that returned a report holding records, with a failed
\* invocation.
ExitedWithReport ==
    /\ pc = "exit"
    /\ exitCode = 0
    /\ result = "resources"
    /\ Len(compartments) > 1
    /\ failed # {}
    /\ \E cat \in DOMAIN resources : resources[cat] # << >>

\* C24: a collector invocation is all-or-nothing. An invocation that failed
\* has left no record in its category: the records of its compartment there
\* are exactly those of the invocations that did not fail.
AllOrNothing ==
    \A pair \in failed :
       CountIn(resources[pair[2]], compartments[pair[1]])
         = items[compartments[pair[1]]]
             * Cardinality(ListedOK(pair[2], compartments[pair[1]]))

\* The listing results of category cat at the loop positions 1..p, one
\* after the other: position by position, each in the order the listing
\* returned it.
RECURSIVE ConcatReturned(_, _)
ConcatReturned(cat, p) ==
    IF p = 0 THEN << >>
    ELSE ConcatReturned(cat, p - 1)
           \o Records(script, cat, compartments[p], ItemsReturned(p, cat))

\* C25: in the returned report every category is the concatenation, in the
\* order the compartments were enumerated, of each compartment's listing
\* result in the order the listing returned it.
ConcatenationInOrder ==
    Reported
    => \A cat \in DOMAIN resources :
          resources[cat] = ConcatReturned(cat, Len(compartments))

\* C26: what has been collected is never touched again. In every step,
\* each category list of resources is kept as a prefix of the list after
\* the step: a later collector, failing or not, removes, changes and
\* reorders nothing, and the lists only grow.
CollectedOnlyGrows ==
    [][\A cat \in DOMAIN resources :
          /\ cat \in DOMAIN resources'
          /\ Len(resources[cat]) <= Len(resources'[cat])
          /\ \A i \in 1..Len(resources[cat]) :
                resources'[cat][i] = resources[cat][i]]_vars

\* C26 witness: an invocation failed at the second loop position while
\* resources held records of the first one.
FailureAfterRecords ==
    /\ pc = "crawl"
    /\ \E pair \in failed : pair[1] = 2
    /\ compartments[1] # compartments[2]
    /\ \E cat \in DOMAIN resources :
          \E i \in 1..Len(resources[cat]) :
             resources[cat][i].comp = compartments[1]

\* C27: the temporary private-key file never outlives the run: when the
\* process has exited, no key file it created is left.
KeyFileDeleted ==
    pc = "exit" => keyFile \in {"none", "deleted"}

\* C28: the resource-search discover_resources never raises. Whatever the
\* client constructor and the search call did, it returned a mapping whose
\* total_count is the length of resources; success is false exactly when an
\* exception occurred, and then resources is empty, total_count is 0 and
\* error holds the message.
SearchNeverRaises ==
    /\ script = "search" => pc # "raised"
    /\ search.ran
       => /\ search.out.total_count = Len(search.out.resources)
          /\ search.out.success = ~search.raised
          /\ ~search.out.success
               => /\ search.out.resources = << >>
                  /\ search.out.total_count = 0
                  /\ "error" \in DOMAIN search.out

\* C28 witness: the search returned two summaries and reading an attribute
\* of the third raised; the result has been printed.
SearchFailedAfterHits ==
    /\ search.ran
    /\ pc = "exit"
    /\ search.raised
    /\ Len(search.answer.hits) = 3
    /\ search.answer.hits[1].readable
    /\ search.answer.hits[2].readable

\* C29: a run of the oci-inventory.py command emits exactly one result
\* document: the report (success true) when the run succeeded, exit status
\* 0, or the error document (success false) with exit status 1 when an
\* exception occurred.
ExactlyOneResult ==
    (script = "inventory" /\ pc = "exit")
    => /\ Len(stdout) = 1
       /\ stdout[1] = "report" <=> exitCode = 0
       /\ stdout[1] = "error" <=> exitCode = 1

====
